---- MODULE Spec2Model ----
(***************************************************************************)
(* Model of the scarif motion-controller client: GrblCtrl, XYGrblMotion    *)
(* (src/scarif/rail_control.py) and Head (src/scarif/cartridge_accessor.py)*)
(* talking to a serial transport.  One client thread; the controller is    *)
(* the environment and chooses every line that readline() returns.         *)
(*                                                                         *)
(* Spec has the sends, status queries and moves with any line as answer;   *)
(* HeadSpec the relative moves and setters of Head; SettingsSpec the       *)
(* settings tables of GrblSettings; LinkSpec follows each line of the      *)
(* controller from its command to the readline() that returns it.          *)
(*                                                                         *)
(* Text is modelled as a sequence of lexemes (records), so that prefix     *)
(* tests, strip() and the status regular expressions are computed on the   *)
(* text and not assumed.  Coordinates are integers counting 0.0001 units   *)
(* (one thousandth = 10), so that "%.3f" is a real rounding.               *)
(***************************************************************************)
EXTENDS Integers, Sequences, FiniteSets, TLC

\* ------------------------------------------------------------------ bounds
\* Most lines one response may hold (the last one ends the response).
MaxLines == 3
\* Most status polls one synchronous move may make.
MaxPolls == 2
\* Most entries a settings table may hold.
MaxEntries == 2
\* Most commands written to one port while its line is followed.
MaxCmds == 3
\* Most lines one picker operation may read.
MaxPickerReads == 3

\* ------------------------------------------------------------------ text
Ch(c) == [k |-> c, n |-> <<>>]
Num(v) == [k |-> "num", n |-> <<v>>]
Triple(tag, x, y, z) == [k |-> tag, n |-> <<x, y, z>>]

CR == Ch("CR")
LF == Ch("LF")
SP == Ch("SP")

IsSpace(tok) == tok.k \in {"CR", "LF", "SP"}

SetMin(S) == CHOOSE a \in S : \A b \in S : a <= b
SetMax(S) == CHOOSE a \in S : \A b \in S : a >= b

\* str.strip(): leading and trailing whitespace removed.
strip(s) ==
    LET keep == {i \in 1..Len(s) : ~IsSpace(s[i])}
    IN  IF keep = {} THEN <<>> ELSE SubSeq(s, SetMin(keep), SetMax(keep))

\* str.startswith(c) / str.endswith(c) for a one-character c.
startswith(s, c) == Len(s) > 0 /\ s[1] = Ch(c)
endswith(s, c) == Len(s) > 0 /\ s[Len(s)] = Ch(c)

\* A decimal string as the program holds it: its value, or not a number.
Txt(v) == [num |-> TRUE, v |-> v]
Unknown == [num |-> FALSE, v |-> 0]

\* A run of decimal digits d, which \d+ matches whole.
Digits(d) == [k |-> "digits", n |-> d]
IsDigits(t) == t.k = "digits"

\* '%i' % n for a natural number n: its decimal digits.
RECURSIVE Dec(_)
Dec(n) == IF n < 10 THEN <<n>> ELSE Append(Dec(n \div 10), n % 10)

\* '%.3f' % v: the value rounded to the nearest thousandth (10 units).
Fmt3(v) == ((v + 5) \div 10) * 10

\* ------------------------------------------------------------------ wire
\* readline() == '' : the read timed out.
Timeout == <<>>
\* The acknowledgment line 'ok\r\n'.
Ack == <<Ch("o"), Ch("k"), CR, LF>>

\* The real-time command characters.
CycleStartChar == <<Ch("~")>>
FeedHoldChar == <<Ch("!")>>
StatusChar == <<Ch("?")>>
ResetChar == <<Ch("CAN")>>

\* What _command hands to write(): command + '\n'.
wire_form(cmd) == cmd \o <<LF>>

\* The loop test with the acknowledgment compared after stripping.
response_done_stripped(raw) == raw = Timeout \/ strip(raw) = strip(Ack)

\* The loop test of _response: the line read ends the response.
response_done(raw) == raw = Timeout \/ raw = Ack

\* The loop body with the empty read left out of the result.
response_append_skip_empty(res, raw) ==
    IF raw = Timeout THEN res ELSE Append(res, strip(raw))

\* The loop body of _response: result.append(raw_result.strip()).
response_append(res, raw) == Append(res, strip(raw))

\* ------------------------------------------------------------------ status
\* state_re: the vocabulary of state names.
StateNames == {"Idle", "Run", "Hold", "Door", "Home", "Alarm", "Check"}

IsStateTok(t) == t.k \in StateNames
\* m_pos_re / w_pos_re: the marker followed by three decimal numbers.
IsMPos(t) == t.k = "MPos:" /\ Len(t.n) >= 3
IsWPos(t) == t.k = "WPos:" /\ Len(t.n) >= 3

\* The snapshot current_status starts from (lines 211-214).
UnknownStatus ==
    [err |-> "", state |-> "Unknown",
     m_pos |-> <<Unknown, Unknown>>, w_pos |-> <<Unknown, Unknown>>]

\* r.startswith('<') and r.endswith('>')
bracketed(r) == startswith(r, "<") /\ endswith(r, ">")

\* split(':')[1].split(',')[0:2] of a matched triple: its first two numbers.
first_two(t) == <<Txt(t.n[1]), Txt(t.n[2])>>

\* The loop without its break: the last bracketed line decides.
parse_status_last(res) ==
    LET idx == {i \in 1..Len(res) : bracketed(res[i])}
    IN  IF idx = {} THEN UnknownStatus
        ELSE LET r == res[SetMax(idx)]
                 st == SelectSeq(r, IsStateTok)
                 mp == SelectSeq(r, IsMPos)
                 wp == SelectSeq(r, IsWPos)
             IN  IF st = <<>> \/ mp = <<>> \/ wp = <<>>
                 THEN [UnknownStatus EXCEPT !.err = "IndexError"]
                 ELSE [err |-> "", state |-> st[1].k,
                       m_pos |-> first_two(mp[1]), w_pos |-> first_two(wp[1])]

\* The loop of XYGrblMotion.current_status over the response lines: the first
\* bracketed line decides; re.findall(...)[0] raises IndexError on no match.
parse_status(res) ==
    LET idx == {i \in 1..Len(res) : bracketed(res[i])}
    IN  IF idx = {} THEN UnknownStatus
        ELSE LET r == res[SetMin(idx)]
                 st == SelectSeq(r, IsStateTok)
                 mp == SelectSeq(r, IsMPos)
                 wp == SelectSeq(r, IsWPos)
             IN  IF st = <<>> \/ mp = <<>> \/ wp = <<>>
                 THEN [UnknownStatus EXCEPT !.err = "IndexError"]
                 ELSE [err |-> "", state |-> st[1].k,
                       m_pos |-> first_two(mp[1]), w_pos |-> first_two(wp[1])]

\* ------------------------------------------------------------------ motion
\* The soft limits Head is constructed with (x_limits, y_limits).
x_limits == <<Txt(10), Txt(30)>>
y_limits == <<Txt(20), Txt(40)>>

\* The range test with its lower bound excluded.
x_in_limits_strict(x) == x_limits[1].v < x.v /\ x.v <= x_limits[2].v

\* The y range test left out.
y_in_limits_open(y) == TRUE

\* The two range tests of Head.goto_x_y.
x_in_limits(x) == x_limits[1].v <= x.v /\ x.v <= x_limits[2].v
y_in_limits(y) == y_limits[1].v <= y.v /\ y.v <= y_limits[2].v

G0 == <<Ch("G"), Ch("0")>>
G1 == <<Ch("G"), Ch("1")>>
G2 == <<Ch("G"), Ch("2")>>
G3 == <<Ch("G"), Ch("3")>>
G38_2 == <<Ch("G"), Ch("3"), Ch("8"), Ch("."), Ch("2")>>
G38_3 == <<Ch("G"), Ch("3"), Ch("8"), Ch("."), Ch("3")>>
G38_4 == <<Ch("G"), Ch("3"), Ch("8"), Ch("."), Ch("4")>>
G38_5 == <<Ch("G"), Ch("3"), Ch("8"), Ch("."), Ch("5")>>
G80 == <<Ch("G"), Ch("8"), Ch("0")>>

\* The mode lists of async_goto_x_y.
SupportedModes == {G0}
UnsupportedModes == {G1, G2, G3, G38_2, G38_3, G38_4, G38_5, G80}

\* The motion command with the coordinates as given, not formatted.
motion_command_unrounded(mode, x, y) ==
    mode \o <<SP, Ch("X"), Num(x.v), SP, Ch("Y"), Num(y.v)>>

\* '%s X%s Y%s' % (motion_mode, '%.3f' % x_req, '%.3f' % y_req)
motion_command(mode, x, y) ==
    mode \o <<SP, Ch("X"), Num(Fmt3(x.v)), SP, Ch("Y"), Num(Fmt3(y.v))>>

\* The precheck test of async_goto_x_y: curr_stat['state'] != 'Idle'.
not_idle(st) == st.state # "Idle"

\* The exit test with the y difference left out.
poll_done_x_only(st, x, y) ==
    /\ st.state = "Idle"
    /\ x.v - st.w_pos[1].v = 0

\* The exit test with the state left out.
poll_done_any_state(st, x, y) ==
    /\ x.v - st.w_pos[1].v = 0
    /\ y.v - st.w_pos[2].v = 0

\* The exit test of the poll loop of goto_x_y:
\* state == 'Idle' and x_diff == 0.0 and y_diff == 0.0.
poll_done(st, x, y) ==
    /\ st.state = "Idle"
    /\ x.v - st.w_pos[1].v = 0
    /\ y.v - st.w_pos[2].v = 0

\* The accelerations Head is constructed with (accel_h, accel_v).
accel_h == 8000
accel_v == 4000

\* '$110=%i' % (mm_min), the text of Head._set_horizontal_acceleration.
horizontal_acceleration_command(mm_min) ==
    <<Ch("$"), Digits(<<1, 1, 0>>), Ch("="), Digits(Dec(mm_min))>>

\* The vertical setter writing the horizontal setting.
vertical_acceleration_command_110(mm_min) == horizontal_acceleration_command(mm_min)

\* '$111=%i' % (mm_min), the text of Head._set_vertical_acceleration.
vertical_acceleration_command(mm_min) ==
    <<Ch("$"), Digits(<<1, 1, 1>>), Ch("="), Digits(Dec(mm_min))>>

\* The arguments with down and right adding count as up and left do.
relative_target_unsigned(op, count, w_pos) ==
    IF op \in {"up", "down"} THEN <<Txt(Fmt3(w_pos[1].v + count)), w_pos[2]>>
    ELSE <<w_pos[1], Txt(Fmt3(w_pos[2].v + count))>>

\* The arguments up and left hand to goto_x_y: the reported work position
\* with count added on the moving axis and formatted with '%.3f'; down and
\* right negate count first.
relative_target(op, count, w_pos) ==
    IF op = "up" THEN <<Txt(Fmt3(w_pos[1].v + count)), w_pos[2]>>
    ELSE IF op = "down" THEN <<Txt(Fmt3(w_pos[1].v - count)), w_pos[2]>>
    ELSE IF op = "left" THEN <<w_pos[1], Txt(Fmt3(w_pos[2].v + count))>>
    ELSE <<w_pos[1], Txt(Fmt3(w_pos[2].v - count))>>

\* ---------------------------------------------------------------- settings
\* A setting key '$<n>'.
Key(n) == <<Ch("$"), Digits(Dec(n))>>

\* GrblSettings._settings_map, for three of its keys.
settings_map ==
    (Key(0) :> <<Ch("step pulse, usec")>>)
        @@ (Key(11) :> <<Ch("junction deviation, mm")>>)
        @@ (Key(110) :> <<Ch("x max rate, mm/min")>>)

\* '\n'.join(lines)
RECURSIVE join(_)
join(lines) ==
    IF lines = <<>> THEN <<>>
    ELSE IF Len(lines) = 1 THEN lines[1]
    ELSE lines[1] \o <<LF>> \o join(Tail(lines))

\* file.readlines(): the text cut after each '\n', which stays on its line.
RECURSIVE readlines(_)
readlines(text) ==
    LET nl == {i \in 1..Len(text) : text[i] = LF}
    IN  IF text = <<>> THEN <<>>
        ELSE IF nl = {} THEN <<text>>
        ELSE <<SubSeq(text, 1, SetMin(nl))>>
                 \o readlines(SubSeq(text, SetMin(nl) + 1, Len(text)))

\* GrblSettings._pretty_print_settings: one line '%s=%s (%s)' per entry, in
\* the table's order; self._settings_map[k] raises KeyError on a key the
\* catalog lacks.
pretty_print_settings(table) ==
    IF \E i \in 1..Len(table) : table[i][1] \notin DOMAIN settings_map
    THEN [err |-> "KeyError", text |-> <<>>]
    ELSE [err |-> "",
          text |-> join([i \in 1..Len(table) |->
                            table[i][1] \o <<Ch("=")>> \o table[i][2]
                                \o <<SP, Ch("(")>> \o settings_map[table[i][1]]
                                \o <<Ch(")")>>])]

\* settings_dict[k] = v on an OrderedDict: a known key keeps its place.
dict_set(d, k, v) ==
    IF \E i \in 1..Len(d) : d[i][1] = k
    THEN [i \in 1..Len(d) |-> IF d[i][1] = k THEN <<k, v>> ELSE d[i]]
    ELSE Append(d, <<k, v>>)

\* re.findall(r'^\$\d+=\d+', s) is not empty.
setting_match(s) ==
    /\ Len(s) >= 4
    /\ s[1] = Ch("$")
    /\ IsDigits(s[2])
    /\ s[3] = Ch("=")
    /\ IsDigits(s[4])

\* The loop of GrblSettings._parse_settings from the dictionary d on: a line
\* starting with '$' gives the matched text split at '=', [0] of an empty
\* match list raises IndexError; other lines are passed over.
RECURSIVE parse_settings_from(_, _)
parse_settings_from(lines, d) ==
    IF lines = <<>> THEN [err |-> "", table |-> d]
    ELSE IF ~startswith(lines[1], "$") THEN parse_settings_from(Tail(lines), d)
    ELSE IF ~setting_match(lines[1]) THEN [err |-> "IndexError", table |-> d]
    ELSE parse_settings_from(Tail(lines),
                             dict_set(d, SubSeq(lines[1], 1, 2), <<lines[1][4]>>))

\* GrblSettings._parse_settings(settings_list)
parse_settings(lines) == parse_settings_from(lines, <<>>)

\* ------------------------------------------------------------------ inputs
\* The caller's targets: below, on and above each limit, and one value with a
\* fourth decimal (0.0014).
TargetX == {Txt(0), Txt(10), Txt(14), Txt(30), Txt(40)}
TargetY == {Txt(10), Txt(20), Txt(40), Txt(50)}

\* Mode tokens that are in neither list of async_goto_x_y.
G4 == <<Ch("G"), Ch("4")>>
LowerG0 == <<Ch("g"), Ch("0")>>
OtherModes == {G4, LowerG0}

\* Targets and modes given to the mode-taking moves of XYGrblMotion.
MoveInputs ==
    ({Txt(10), Txt(14)} \X {Txt(20)} \X SupportedModes)
        \cup ({Txt(10)} \X {Txt(20)} \X (UnsupportedModes \cup OtherModes))

\* Texts handed to _system_command and _g_command.
SystemInputs ==
    {<<Ch("$"), Ch("$")>>, <<Ch("$"), Ch("H")>>, <<Ch("$"), Ch("X")>>,
     <<>>, <<SP, Ch("$"), Ch("$")>>, G0, StatusChar}
GInputs ==
    {motion_command(G0, Txt(10), Txt(20)), G4,
     <<>>, LowerG0, <<Ch("$"), Ch("G")>>, <<SP>> \o G0}

\* A status report line '<state,MPos:x,y,z,WPos:x,y,z>\r\n'; the machine
\* frame is the work frame shifted by 100, and Z is 50.
StatusLine(st, w) ==
    <<Ch("<"), Ch(st), Ch(","), Triple("MPos:", w[1] + 100, w[2] + 100, 50),
      Ch(","), Triple("WPos:", w[1], w[2], 50), Ch(">"), CR, LF>>

\* The lines the controller may answer with (readline() results): a timeout,
\* the acknowledgment, 'ok\n', an error line, status reports (one with a
\* leading blank, one without a WPos field).
ReadLines ==
    {Timeout, Ack, <<Ch("o"), Ch("k"), LF>>, <<Ch("error"), CR, LF>>}
        \cup {StatusLine("Idle", w) : w \in {<<10, 20>>, <<30, 20>>}}
        \cup {<<SP>> \o StatusLine("Idle", <<10, 40>>)}
        \cup {StatusLine(st, <<10, 20>>) : st \in {"Run", "Hold", "Alarm"}}
        \cup {<<Ch("<"), Ch("Idle"), Ch("|"), Triple("MPos:", 110, 120, 50), Ch(">"), CR, LF>>}

\* Setting values as texts: '10' and '0.010'.
SettingValues == {<<Digits(<<1, 0>>)>>, <<Digits(<<0>>), Ch("."), Digits(<<0, 1, 0>>)>>}
\* Setting keys: two of the catalog, and '$7', which the catalog lacks.
SettingKeys == {Key(0), Key(11), Key(7)}
\* The settings tables (OrderedDict): up to MaxEntries entries, no key twice.
Tables ==
    {t \in UNION {[1..n -> SettingKeys \X SettingValues] : n \in 0..MaxEntries} :
        \A i, j \in 1..Len(t) : t[i][1] = t[j][1] => i = j}
\* The distances given to up, down, left and right: two thousandths, and
\* four ten-thousandths.
Counts == {20, 4}
\* The values given to the acceleration setters.
Accelerations == {accel_h, accel_v}
\* The lines the controller answers Head's calls with.
HeadLines ==
    {Timeout, Ack}
        \cup {StatusLine("Idle", w) : w \in {<<10, 20>>, <<30, 20>>, <<10, 40>>}}
        \cup {StatusLine("Run", <<10, 20>>)}
\* The lines the controller answers a setting command with.
SettingLines == {Timeout, Ack, <<Ch("error"), CR, LF>>}
\* The lines the controller answers '$$' with: numbered settings (one key
\* twice, one decimal value), the '$$' echo, a startup-block line.
ListingLines ==
    {Timeout, Ack,
     Key(0) \o <<Ch("="), Digits(<<1, 0>>), CR, LF>>,
     Key(0) \o <<Ch("="), Digits(<<2, 0>>), CR, LF>>,
     Key(11) \o <<Ch("="), Digits(<<0>>), Ch("."), Digits(<<0, 1, 0>>), CR, LF>>,
     <<Ch("$"), Ch("$"), CR, LF>>,
     <<Ch("$"), Ch("N"), Digits(<<0>>), Ch("="), CR, LF>>}

\* ------------------------------------------------------------------ state
VARIABLES
    isOpen,     \* self._serial.isOpen()
    call,       \* the client call in progress, or the last one made
    pc,         \* where that call stands: "done" when it has ended
    written,    \* what the call has handed to write(), in order
    reads,      \* the lines readline() returned to the current _response
    result,     \* the local result of the current _response
    nreads,     \* the number of readline() calls the call has made
    polls,      \* the number of poll queries a synchronous move has written
    snap,       \* the last status snapshot current_status produced
    ret,        \* the lines a finished send returned
    outcome,    \* how the call ended: returned, or the exception raised
    link        \* the serial line: the controller's output on its way to readline()

vars == <<isOpen, call, pc, written, reads, result, nreads, polls, snap, ret, outcome, link>>

Call(op, cmd, x, y, mode) ==
    [op |-> op, cmd |-> cmd, x |-> x, y |-> y, mode |-> mode, count |-> 0, table |-> <<>>]
Plain(op, cmd) == Call(op, cmd, Unknown, Unknown, <<>>)
\* A call taking one number: count of up/down/left/right, mm_min of a setter.
Rel(op, count) == [Plain(op, <<>>) EXCEPT !.count = count]
\* A call taking a settings table.
TableCall(op, table) == [Plain(op, <<>>) EXCEPT !.table = table]

NoCall == Plain("none", <<>>)

NoOutcome == [kind |-> "none", exc |-> "", msg |-> ""]
Returned == [kind |-> "returned", exc |-> "", msg |-> ""]
Raised(exc, msg) == [kind |-> "raised", exc |-> exc, msg |-> msg]

\* What the raise statement of _command raises on a closed port: building
\* the message reads self.port, an attribute GrblCtrl never sets.
port_not_open_error == Raised("AttributeError", "no attribute port")
\* What the raise statement of the precheck raises: building the message
\* reads self.state, an attribute no class sets.
not_idle_error == Raised("AttributeError", "no attribute state")
dollar_prefix_error == Raised("GrblCommandException", "does not start with $")
g_prefix_error == Raised("GrblCommandException", "does not start with G")
not_implemented_error == Raised("GrblMotionModeExeption", "not implemented yet")
not_valid_error == Raised("GrblMotionModeExeption", "not a valid motion mode")
soft_limit_error == Raised("SoftLimitExceededException", "out of range")
index_error == Raised("IndexError", "list index out of range")
value_error == Raised("ValueError", "could not convert string to float")
key_error == Raised("KeyError", "key not in _settings_map")
\* What write() of the transport raises when the device fails.
write_error == Raised("SerialException", "write failed")

\* The serial line with nothing on it: no line of the controller waits in the
\* input buffer (inbuf) or is still to come (outq), no command has been
\* written (seq), and the send in progress has read no line (tags).
QuietLink == [inbuf |-> <<>>, outq |-> <<>>, seq |-> 0, tags |-> <<>>]

Init ==
    /\ isOpen = TRUE
    /\ call = NoCall
    /\ pc = "ready"
    /\ written = <<>>
    /\ reads = <<>>
    /\ result = <<>>
    /\ nreads = 0
    /\ polls = 0
    /\ snap = UnknownStatus
    /\ ret = <<>>
    /\ outcome = NoOutcome
    /\ link = QuietLink

\* ------------------------------------------------------------------ steps
\* A client call starts: nothing written or read yet.
Start(c) ==
    /\ pc = "ready"
    /\ call' = c
    /\ nreads' = 0
    /\ polls' = 0
    /\ ret' = <<>>
    /\ UNCHANGED isOpen

\* A call starts where the serial line's contents are not followed.
Begin(c) == Start(c) /\ UNCHANGED link

\* The call ends with outcome o, before any readline of a new send.
End(o) ==
    /\ pc' = "done"
    /\ outcome' = o
    /\ reads' = <<>>
    /\ result' = <<>>

\* GrblCtrl._command up to its first readline: the open test, then the write
\* of command + '\n', then _response starts with an empty result.
command(w, cmd, next) ==
    IF ~isOpen
    THEN written' = w /\ snap' = UnknownStatus /\ End(port_not_open_error)
    ELSE /\ written' = Append(w, wire_form(cmd))
         /\ snap' = UnknownStatus
         /\ pc' = next
         /\ outcome' = NoOutcome
         /\ reads' = <<>>
         /\ result' = <<>>

\* _system_command without its prefix test.
system_command_unchecked(w, x, next) == command(w, x, next)

\* GrblCtrl._system_command: the prefix test, then _command.
system_command(w, x, next) ==
    IF ~startswith(x, "$")
    THEN written' = w /\ snap' = UnknownStatus /\ End(dollar_prefix_error)
    ELSE command(w, x, next)

\* GrblCtrl._g_command: the prefix test, then _command.
g_command(w, x, next) ==
    IF ~startswith(x, "G")
    THEN written' = w /\ snap' = UnknownStatus /\ End(g_prefix_error)
    ELSE command(w, x, next)

\* One iteration of the loop of _response that does not end it.
Reading(l) ==
    /\ pc \in {"send", "status", "precheck", "dispatch", "poll", "save", "accel", "where", "view"}
    /\ ~response_done(l)
    /\ Len(reads) + 1 < MaxLines
    /\ reads' = Append(reads, l)
    /\ result' = response_append(result, l)
    /\ nreads' = nreads + 1
    /\ UNCHANGED <<isOpen, call, pc, written, polls, snap, ret, outcome>>

\* That iteration where the serial line's contents are not followed.
ReadMore(l) == Reading(l) /\ UNCHANGED link

\* The last iteration of _response: the line is appended and result returned.
\* The caller then ends with outcome o.
Ending(l, o) ==
    /\ reads' = Append(reads, l)
    /\ result' = response_append(result, l)
    /\ nreads' = nreads + 1
    /\ pc' = "done"
    /\ outcome' = o
    /\ UNCHANGED <<isOpen, call, written, polls>>

\* That iteration where the serial line's contents are not followed.
LastRead(l, o) == Ending(l, o) /\ UNCHANGED link

\* The last iteration of _response, after which the caller issues a new send.
NextSend(l) ==
    /\ nreads' = nreads + 1
    /\ UNCHANGED <<isOpen, call, ret, link>>

\* ------------------------------------------------------------------ calls
\* GrblCtrl.open: Serial.open(), between calls.
open ==
    /\ pc = "ready"
    /\ ~isOpen
    /\ isOpen' = TRUE
    /\ UNCHANGED <<call, pc, written, reads, result, nreads, polls, snap, ret, outcome, link>>

\* GrblCtrl.close: Serial.close(), between calls.
close ==
    /\ pc = "ready"
    /\ isOpen
    /\ isOpen' = FALSE
    /\ UNCHANGED <<call, pc, written, reads, result, nreads, polls, snap, ret, outcome, link>>

\* The finished call's result has been taken by the client, which is free to
\* make its next call; only the port's state outlives the call.
next_call ==
    /\ pc = "done"
    /\ pc' = "ready"
    /\ call' = NoCall
    /\ written' = <<>>
    /\ reads' = <<>>
    /\ result' = <<>>
    /\ nreads' = 0
    /\ polls' = 0
    /\ snap' = UnknownStatus
    /\ ret' = <<>>
    /\ outcome' = NoOutcome
    /\ UNCHANGED <<isOpen, link>>

\* GrblCtrl._system_command(x), as its callers view_grbl_settings,
\* run_homing_cycle, kill_alarm_lock, ... reach it.
SystemCommand(x) ==
    /\ Begin(Plain("_system_command", x))
    /\ system_command(<<>>, x, "send")

\* GrblCtrl._g_command(x)
GCommand(x) ==
    /\ Begin(Plain("_g_command", x))
    /\ g_command(<<>>, x, "send")

\* GrblCtrl.cycle_start: self._command('~')
cycle_start ==
    /\ Begin(Plain("cycle_start", CycleStartChar))
    /\ command(<<>>, CycleStartChar, "send")

\* GrblCtrl.feed_hold: self._command('!'); the except clause names an
\* exception nothing raises.
feed_hold ==
    /\ Begin(Plain("feed_hold", FeedHoldChar))
    /\ command(<<>>, FeedHoldChar, "send")

\* GrblCtrl.current_status: self._command('?')
grbl_current_status ==
    /\ Begin(Plain("GrblCtrl.current_status", StatusChar))
    /\ command(<<>>, StatusChar, "send")

\* GrblCtrl.reset_grbl: self._command('\x18')
reset_grbl ==
    /\ Begin(Plain("reset_grbl", ResetChar))
    /\ command(<<>>, ResetChar, "send")

\* XYGrblMotion.current_status, up to the first readline of its query.
current_status ==
    /\ Begin(Plain("current_status", StatusChar))
    /\ command(<<>>, StatusChar, "status")

\* XYGrblMotion.async_goto_x_y(x, y, motion_mode), up to the first readline
\* of its precheck query (line 284).  x_req and y_req, which no method reads,
\* are not kept.
async_goto_x_y(x, y, mode) ==
    /\ Begin(Call("async_goto_x_y", <<>>, x, y, mode))
    /\ command(<<>>, StatusChar, "precheck")

\* XYGrblMotion.goto_x_y(x, y, motion_mode): async_goto_x_y, then the poll loop.
xy_goto_x_y(x, y, mode) ==
    /\ Begin(Call("XYGrblMotion.goto_x_y", <<>>, x, y, mode))
    /\ command(<<>>, StatusChar, "precheck")

\* Head.goto_x_y(x, y): the two range tests, then XYGrblMotion.goto_x_y(x, y).
goto_x_y(x, y) ==
    /\ Begin(Call("goto_x_y", <<>>, x, y, G0))
    /\ IF ~x_in_limits(x) \/ ~y_in_limits(y)
       THEN written' = <<>> /\ snap' = UnknownStatus /\ End(soft_limit_error)
       ELSE command(<<>>, StatusChar, "precheck")

\* ------------------------------------------------------------------ replies
\* _command returns to the caller of a plain send.
send_return(l) ==
    /\ pc = "send"
    /\ response_done(l)
    /\ LastRead(l, Returned)
    /\ ret' = response_append(result, l)
    /\ UNCHANGED snap

\* XYGrblMotion.current_status parses the response and returns the snapshot.
status_return(l) ==
    /\ pc = "status"
    /\ response_done(l)
    /\ LET st == parse_status(response_append(result, l))
       IN  IF st.err # ""
           THEN LastRead(l, index_error) /\ UNCHANGED snap
           ELSE LastRead(l, Returned) /\ snap' = st
    /\ UNCHANGED ret

\* async_goto_x_y after its precheck query: the Idle test, then the mode
\* branches; for G0 the motion command is written.
precheck(l) ==
    /\ pc = "precheck"
    /\ response_done(l)
    /\ LET st == parse_status(response_append(result, l))
       IN  IF st.err # ""
           THEN LastRead(l, index_error) /\ UNCHANGED <<snap, ret>>
           ELSE IF not_idle(st)
           THEN LastRead(l, not_idle_error) /\ snap' = st /\ UNCHANGED ret
           ELSE IF call.mode \in SupportedModes
           THEN IF ~call.x.num \/ ~call.y.num
                THEN LastRead(l, value_error) /\ snap' = st /\ UNCHANGED ret
                ELSE /\ NextSend(l)
                     /\ g_command(written, motion_command(call.mode, call.x, call.y),
                                  "dispatch")
                     /\ UNCHANGED polls
           ELSE IF call.mode \in UnsupportedModes
           THEN LastRead(l, not_implemented_error) /\ snap' = st /\ UNCHANGED ret
           ELSE LastRead(l, not_valid_error) /\ snap' = st /\ UNCHANGED ret

\* The motion command's response is complete: async_goto_x_y returns; a
\* synchronous move enters its poll loop and writes the first status query.
dispatched(l) ==
    /\ pc = "dispatch"
    /\ response_done(l)
    /\ IF call.op = "async_goto_x_y"
       THEN LastRead(l, Returned) /\ UNCHANGED <<snap, ret>>
       ELSE /\ NextSend(l)
            /\ command(written, StatusChar, "poll")
            /\ polls' = 1

\* One iteration of the poll loop of goto_x_y: the snapshot is parsed and
\* compared with the target; the loop ends, or sleeps and queries again.
poll(l) ==
    /\ pc = "poll"
    /\ response_done(l)
    /\ LET st == parse_status(response_append(result, l))
       IN  IF st.err # ""
           THEN LastRead(l, index_error) /\ UNCHANGED <<snap, ret>>
           ELSE IF ~st.w_pos[1].num \/ ~st.w_pos[2].num
           THEN LastRead(l, value_error) /\ snap' = st /\ UNCHANGED ret
           ELSE IF poll_done(st, call.x, call.y)
           THEN LastRead(l, Returned) /\ snap' = st /\ UNCHANGED ret
           ELSE /\ polls < MaxPolls
                /\ NextSend(l)
                /\ command(written, StatusChar, "poll")
                /\ polls' = polls + 1

\* ------------------------------------------------------------ serial line
\* A line of the controller's output, with the number of the command it
\* replies to.
Reply(n, l) == [of |-> n, line |-> l]

\* What the controller answers one command with: the acknowledgment, alone
\* or after one line of data.
Replies == {<<Ack>>, <<<<Ch("$0=10"), CR, LF>>, Ack>>}

\* GrblCtrl._command(x) on the followed line, up to its first readline: the
\* text is written, and the controller will answer it with the lines of r.
link_command(x, r) ==
    /\ link.seq < MaxCmds
    /\ Start(Plain("_command", x))
    /\ command(<<>>, x, "send")
    /\ link' = [link EXCEPT
                   !.seq = @ + 1,
                   !.outq = @ \o [i \in 1..Len(r) |-> Reply(link.seq + 1, r[i])],
                   !.tags = <<>>]

\* The controller's next line arrives in the input buffer of the port.
link_arrive ==
    /\ link.outq # <<>>
    /\ link' = [link EXCEPT !.inbuf = Append(@, Head(link.outq)), !.outq = Tail(@)]
    /\ UNCHANGED <<isOpen, call, pc, written, reads, result, nreads, polls, snap, ret, outcome>>

\* readline() in _response returns the first line of the input buffer.
link_readline ==
    /\ pc = "send"
    /\ link.inbuf # <<>>
    /\ LET l == Head(link.inbuf).line
       IN  IF response_done(l)
           THEN Ending(l, Returned) /\ ret' = response_append(result, l) /\ UNCHANGED snap
           ELSE Reading(l)
    /\ link' = [link EXCEPT !.inbuf = Tail(@), !.tags = Append(@, Head(link.inbuf).of)]

\* readline() in _response finds the input buffer empty until the read
\* timeout: it returns '', and _command returns.
link_timeout ==
    /\ pc = "send"
    /\ link.inbuf = <<>>
    /\ Ending(Timeout, Returned)
    /\ ret' = response_append(result, Timeout)
    /\ UNCHANGED <<snap, link>>

\* ----------------------------------------------------------------- picker
\* The sentinel 'end' of the picker's protocol.
Sentinel == <<Ch("e"), Ch("n"), Ch("d")>>

\* str.startswith(p) for a text p.
starts_with_text(s, p) == Len(s) >= Len(p) /\ SubSeq(s, 1, Len(p)) = p

\* The exit test with the line stripped first.
picker_done_stripped(data) == data # <<>> /\ starts_with_text(strip(data), Sentinel)

\* The exit test of the loops of Picker: if data: if data.startswith('end').
picker_done(data) == data # <<>> /\ starts_with_text(data, Sentinel)

\* The lines the picker may answer with: a read timeout, the sentinel line,
\* a line that goes on after the sentinel, the sentinel after a blank, and
\* two other lines.
PickerLines ==
    {Timeout,
     Sentinel \o <<LF>>,
     Sentinel \o <<Ch("e"), Ch("d"), LF>>,
     <<SP>> \o Sentinel \o <<LF>>,
     <<Ch("e"), Ch("n"), LF>>,
     <<Ch("moving"), LF>>}

\* self._serial.write(c) of a picker operation, which raises on a closed
\* port; the loop then starts with nothing read.
picker_write(c) ==
    /\ snap' = UnknownStatus
    /\ IF ~isOpen
       THEN written' = <<>> /\ End(write_error)
       ELSE /\ written' = <<c>>
            /\ pc' = "pick"
            /\ outcome' = NoOutcome
            /\ reads' = <<>>
            /\ result' = <<>>

\* Picker.insert, Picker.retrieve, Picker.home
insert ==
    /\ Begin(Plain("insert", <<Ch("i")>>))
    /\ picker_write(<<Ch("i")>>)
retrieve ==
    /\ Begin(Plain("retrieve", <<Ch("r")>>))
    /\ picker_write(<<Ch("r")>>)
home ==
    /\ Begin(Plain("home", <<Ch("h")>>))
    /\ picker_write(<<Ch("h")>>)

\* One turn of the loop of a picker operation: readline(), then the exit test.
picker_readline(l) ==
    /\ pc = "pick"
    /\ nreads < MaxPickerReads
    /\ reads' = Append(reads, l)
    /\ nreads' = nreads + 1
    /\ IF picker_done(l)
       THEN pc' = "done" /\ outcome' = Returned
       ELSE UNCHANGED <<pc, outcome>>
    /\ UNCHANGED <<isOpen, call, written, result, polls, snap, ret, link>>

\* ------------------------------------------------------------- head calls
\* Head._set_horizontal_acceleration(mm_min): self.grbl_ctrl._command(...)
set_horizontal_acceleration(mm_min) ==
    /\ Begin(Rel("_set_horizontal_acceleration", mm_min))
    /\ command(<<>>, horizontal_acceleration_command(mm_min), "send")

\* Head._set_vertical_acceleration(mm_min): self.grbl_ctrl._command(...)
set_vertical_acceleration(mm_min) ==
    /\ Begin(Rel("_set_vertical_acceleration", mm_min))
    /\ command(<<>>, vertical_acceleration_command(mm_min), "send")

\* Head.up(count), up to the first readline of its acceleration setter.
up(count) ==
    /\ Begin(Rel("up", count))
    /\ command(<<>>, vertical_acceleration_command(accel_v), "accel")

\* Head.down(count): self.up(-1*count)
down(count) ==
    /\ Begin(Rel("down", count))
    /\ command(<<>>, vertical_acceleration_command(accel_v), "accel")

\* Head.left(count), up to the first readline of its acceleration setter.
left(count) ==
    /\ Begin(Rel("left", count))
    /\ command(<<>>, horizontal_acceleration_command(accel_h), "accel")

\* Head.right(count): self.left(-1*count)
right(count) ==
    /\ Begin(Rel("right", count))
    /\ command(<<>>, horizontal_acceleration_command(accel_h), "accel")

\* The setter's response is complete: up/left go on to current_status().
accelerated(l) ==
    /\ pc = "accel"
    /\ response_done(l)
    /\ NextSend(l)
    /\ command(written, StatusChar, "where")
    /\ UNCHANGED polls

\* up/left after current_status(): float() of the reported coordinate, the
\* sum, then Head.goto_x_y with the new target: its range tests, and the
\* precheck query of the move.
located(l) ==
    /\ pc = "where"
    /\ response_done(l)
    /\ nreads' = nreads + 1
    /\ UNCHANGED <<isOpen, ret, polls, link>>
    /\ LET st == parse_status(response_append(result, l))
           t == relative_target(call.op, call.count, st.w_pos)
           stop(o) == /\ reads' = Append(reads, l)
                      /\ result' = response_append(result, l)
                      /\ pc' = "done"
                      /\ outcome' = o
                      /\ written' = written
       IN  IF st.err # ""
           THEN stop(index_error) /\ UNCHANGED <<snap, call>>
           ELSE IF ~st.w_pos[1].num \/ ~st.w_pos[2].num
           THEN stop(value_error) /\ snap' = st /\ UNCHANGED call
           ELSE /\ call' = [call EXCEPT !.x = t[1], !.y = t[2], !.mode = G0]
                /\ IF ~x_in_limits(t[1]) \/ ~y_in_limits(t[2])
                   THEN stop(soft_limit_error) /\ snap' = st
                   ELSE command(written, StatusChar, "precheck")

\* --------------------------------------------------------- settings calls
\* str.strip(c) for a one-character c: leading and trailing c removed.
strip_chars(s, c) ==
    LET keep == {i \in 1..Len(s) : s[i] # Ch(c)}
    IN  IF keep = {} THEN <<>> ELSE SubSeq(s, SetMin(keep), SetMax(keep))

\* The command text with the key left unstripped.
setting_command_unstripped(k, v) == <<Ch("$")>> \o k \o <<Ch("=")>> \o v

\* '${}={}'.format(k.strip('$'), v): the text save_settings_to_grbl has
\* save_grbl_setting hand to _system_command for the entry (k, v).
setting_command(k, v) == <<Ch("$")>> \o strip_chars(k, "$") \o <<Ch("=")>> \o v

\* GrblCtrl.save_grbl_setting for the entry e, up to the first readline of
\* its response; write() raises when ok is FALSE.
save_grbl_setting(w, e, ok) ==
    IF isOpen /\ ~ok
    THEN written' = w /\ snap' = UnknownStatus /\ End(write_error)
    ELSE system_command(w, setting_command(e[1], e[2]), "save")

\* GrblSettings.save_settings_to_grbl(grbl, settings_dict), up to the first
\* readline of the first entry's response.
save_settings_to_grbl(table, ok) ==
    /\ Begin(TableCall("save_settings_to_grbl", table))
    /\ IF table = <<>>
       THEN written' = <<>> /\ snap' = UnknownStatus /\ End(Returned)
       ELSE save_grbl_setting(<<>>, table[1], ok)

\* The response to one entry's command is complete: the loop of
\* save_settings_to_grbl goes on to the next entry, or the call returns.
saved(l, ok) ==
    /\ pc = "save"
    /\ response_done(l)
    /\ IF Len(written) = Len(call.table)
       THEN LastRead(l, Returned) /\ UNCHANGED <<snap, ret>>
       ELSE /\ NextSend(l)
            /\ save_grbl_setting(written, call.table[Len(written) + 1], ok)
            /\ UNCHANGED polls

\* GrblSettings.get_settings_from_grbl(grbl), up to the first readline of
\* view_grbl_settings: self._system_command('$$').
get_settings_from_grbl ==
    /\ Begin(Plain("get_settings_from_grbl", <<Ch("$"), Ch("$")>>))
    /\ system_command(<<>>, <<Ch("$"), Ch("$")>>, "view")

\* One more line of the listing is read by _response.
listed(l) == pc = "view" /\ ReadMore(l)

\* view_grbl_settings has returned its lines: _parse_settings on them.
viewed(l) ==
    /\ pc = "view"
    /\ response_done(l)
    /\ LET r == parse_settings(response_append(result, l))
       IN  /\ LastRead(l, IF r.err # "" THEN index_error ELSE Returned)
           /\ ret' = IF r.err # "" THEN <<>> ELSE r.table
    /\ UNCHANGED snap

\* GrblSettings.save_settings_to_file(filename, settings_dict): the rendered
\* text is handed to the file's write().
save_settings_to_file(table) ==
    /\ Begin(TableCall("save_settings_to_file", table))
    /\ LET p == pretty_print_settings(table)
       IN  IF p.err # ""
           THEN written' = <<>> /\ End(key_error)
           ELSE written' = <<p.text>> /\ End(Returned)
    /\ snap' = UnknownStatus

\* GrblSettings.get_settings_from_file(filename) on the file the finished
\* save_settings_to_file wrote; call.table keeps the table that was saved.
get_settings_from_file ==
    /\ pc = "done"
    /\ call.op = "save_settings_to_file"
    /\ outcome = Returned
    /\ LET r == parse_settings(readlines(written[1]))
       IN  /\ ret' = r.table
           /\ outcome' = IF r.err # "" THEN index_error ELSE Returned
    /\ call' = [call EXCEPT !.op = "get_settings_from_file"]
    /\ UNCHANGED <<isOpen, pc, written, reads, result, nreads, polls, snap, link>>

Next ==
    \/ open
    \/ close
    \/ next_call
    \/ \E x \in SystemInputs : SystemCommand(x)
    \/ \E x \in GInputs : GCommand(x)
    \/ cycle_start
    \/ feed_hold
    \/ grbl_current_status
    \/ reset_grbl
    \/ current_status
    \/ \E m \in MoveInputs : async_goto_x_y(m[1], m[2], m[3])
    \/ \E m \in MoveInputs : xy_goto_x_y(m[1], m[2], m[3])
    \/ \E x \in TargetX, y \in TargetY : goto_x_y(x, y)
    \/ \E l \in ReadLines : ReadMore(l)
    \/ \E l \in ReadLines : send_return(l)
    \/ \E l \in ReadLines : status_return(l)
    \/ \E l \in ReadLines : precheck(l)
    \/ \E l \in ReadLines : dispatched(l)
    \/ \E l \in ReadLines : poll(l)

Spec == Init /\ [][Next]_vars

\* The operations of Picker on its own port.
PickerNext ==
    \/ open
    \/ close
    \/ next_call
    \/ insert
    \/ retrieve
    \/ home
    \/ \E l \in PickerLines : picker_readline(l)

PickerSpec == Init /\ [][PickerNext]_vars

\* Sends on one port whose line is followed: every line read is one the
\* controller sent in answer to some command.
LinkNext ==
    \/ next_call
    \/ \E x \in {<<Ch("$"), Ch("$")>>, <<Ch("$"), Ch("H")>>}, r \in Replies : link_command(x, r)
    \/ link_arrive
    \/ link_readline
    \/ link_timeout

LinkSpec == Init /\ [][LinkNext]_vars

\* The operations of Head.
HeadNext ==
    \/ open
    \/ close
    \/ next_call
    \/ \E a \in Accelerations : set_horizontal_acceleration(a)
    \/ \E a \in Accelerations : set_vertical_acceleration(a)
    \/ \E c \in Counts : up(c)
    \/ \E c \in Counts : down(c)
    \/ \E c \in Counts : left(c)
    \/ \E c \in Counts : right(c)
    \/ \E x \in TargetX, y \in TargetY : goto_x_y(x, y)
    \/ \E l \in HeadLines : ReadMore(l)
    \/ \E l \in HeadLines : send_return(l)
    \/ \E l \in HeadLines : accelerated(l)
    \/ \E l \in HeadLines : located(l)
    \/ \E l \in HeadLines : precheck(l)
    \/ \E l \in HeadLines : dispatched(l)
    \/ \E l \in HeadLines : poll(l)

HeadSpec == Init /\ [][HeadNext]_vars

\* The settings operations of GrblSettings on one GrblCtrl.
SettingsNext ==
    \/ open
    \/ close
    \/ next_call
    \/ \E t \in Tables : save_settings_to_file(t)
    \/ get_settings_from_file
    \/ \E t \in Tables, ok \in BOOLEAN : save_settings_to_grbl(t, ok)
    \/ get_settings_from_grbl
    \/ \E l \in SettingLines : ReadMore(l)
    \/ \E l \in SettingLines, ok \in BOOLEAN : saved(l, ok)
    \/ \E l \in ListingLines : listed(l)
    \/ \E l \in ListingLines : viewed(l)

SettingsSpec == Init /\ [][SettingsNext]_vars

\* ------------------------------------------------------------------ claims
MoveOps == {"goto_x_y", "XYGrblMotion.goto_x_y", "async_goto_x_y"}
RealTimeOps == {"cycle_start", "feed_hold", "GrblCtrl.current_status", "reset_grbl"}

\* A motion command (text beginning with G) is among the writes of the call.
WroteMotion == \E i \in 1..Len(written) : written[i][1] = Ch("G")

OutOfRange(x, y) ==
    \/ x.v < x_limits[1].v \/ x.v > x_limits[2].v
    \/ y.v < y_limits[1].v \/ y.v > y_limits[2].v

\* C1: Head.goto_x_y(x, y) raises SoftLimitExceeded exactly when x is outside
\* [xMin, xMax] or y is outside [yMin, yMax], bounds included in the range;
\* when it raises it, the call has written nothing and read nothing.
C1_SoftLimitGuard ==
    call.op = "goto_x_y" =>
        /\ (outcome.exc = "SoftLimitExceededException") <=> OutOfRange(call.x, call.y)
        /\ outcome.exc = "SoftLimitExceededException" =>
               pc = "done" /\ outcome.kind = "raised" /\ written = <<>> /\ nreads = 0

\* C1 witness: a target with x on its lower bound and y above its upper bound
\* was refused.
C1_Witness ==
    /\ call.op = "goto_x_y" /\ pc = "done"
    /\ call.x = Txt(10) /\ call.y = Txt(50)
    /\ outcome = soft_limit_error

\* The precheck query of the finished move was answered with a status report
\* whose state is st.
PrecheckReported(st) ==
    /\ call.op \in MoveOps /\ pc = "done"
    /\ Len(written) = 1 /\ nreads > 0
    /\ parse_status(result).err = ""
    /\ parse_status(result).state = st

\* C2 (as claimed): a move requested while the precheck reports a state other
\* than Idle fails with the busy error of the motion-mode exception type, and
\* writes no motion command.
C2_BusyIsControllerBusy ==
    \A st \in (StateNames \cup {"Unknown"}) \ {"Idle"} :
        PrecheckReported(st) =>
            /\ outcome.kind = "raised"
            /\ outcome.exc = "GrblMotionModeExeption"
            /\ ~WroteMotion

\* C3: _system_command on a text not beginning with '$', and _g_command on a
\* text not beginning with 'G', raise GrblCommandException with nothing
\* written and nothing read, whether the port is open or closed.
C3_MalformedCommand ==
    /\ (call.op = "_system_command" /\ (call.cmd = <<>> \/ call.cmd[1].k # "$")) =>
           /\ pc = "done"
           /\ outcome = Raised("GrblCommandException", "does not start with $")
           /\ written = <<>> /\ nreads = 0
    /\ (call.op = "_g_command" /\ (call.cmd = <<>> \/ call.cmd[1].k # "G")) =>
           /\ pc = "done"
           /\ outcome = Raised("GrblCommandException", "does not start with G")
           /\ written = <<>> /\ nreads = 0

\* C3 witness: on a closed port, a system command with a leading blank was
\* refused for its prefix.
C3_Witness ==
    /\ ~isOpen /\ pc = "done"
    /\ call.op = "_system_command" /\ call.cmd = <<SP, Ch("$"), Ch("$")>>
    /\ outcome.exc = "GrblCommandException"

\* C4 (as claimed): a command sent while the port is not open fails with
\* GrblSerialException and nothing is written or read.
C4_ClosedIsSerialException ==
    (~isOpen /\ pc = "done" /\ call.op \in RealTimeOps \cup {"current_status"}) =>
        /\ outcome.kind = "raised"
        /\ outcome.exc = "GrblSerialException"
        /\ written = <<>> /\ nreads = 0

SendOps == {"_system_command", "_g_command"} \cup RealTimeOps

\* The call is a send that passed its prefix test on an open port.
SendStarted ==
    /\ call.op \in SendOps
    /\ isOpen
    /\ outcome.exc # "GrblCommandException"

Stripped(lines) == [i \in 1..Len(lines) |-> strip(lines[i])]

\* C5: a send on an open port in which no read times out performs exactly one
\* write, before any read; it reads on while no line is exactly 'ok\r\n', reads
\* nothing after that line, and returns every line read (stripped), in order,
\* the acknowledgment last.
C5_SendUntilAck ==
    /\ nreads > 0 => Len(written) >= 1
    /\ \A i \in 1..(Len(reads) - 1) : reads[i] # Ack
    /\ SendStarted =>
           /\ Len(written) = 1
           /\ nreads = Len(reads)
           /\ pc = "send" => \A i \in 1..Len(reads) : reads[i] # Ack
           /\ (pc = "done" /\ \A i \in 1..Len(reads) : reads[i] # Timeout) =>
                  /\ outcome = Returned
                  /\ reads # <<>> /\ reads[Len(reads)] = Ack
                  /\ ret = Stripped(reads)
                  /\ ret[Len(ret)] = <<Ch("o"), Ch("k")>>

\* C5 witness: a send returned after reading 'ok\n', an error line and then
\* the acknowledgment.
C5_Witness ==
    /\ SendStarted /\ pc = "done"
    /\ reads = <<<<Ch("o"), Ch("k"), LF>>, <<Ch("error"), CR, LF>>, Ack>>
    /\ outcome = Returned

\* The finished send ended on an empty read.
SendTimedOut ==
    /\ SendStarted /\ pc = "done"
    /\ reads # <<>> /\ reads[Len(reads)] = Timeout

\* C6 (as claimed): on an empty read the send does not raise and returns the
\* lines read before the empty read, in order.
C6_TimeoutReturnsLinesBefore ==
    SendTimedOut =>
        /\ outcome = Returned
        /\ ret = Stripped(SubSeq(reads, 1, Len(reads) - 1))

\* C6 (amended): on an empty read the send does not raise, reads nothing more,
\* and returns the lines read before the empty read, in order, followed by
\* one empty string for the empty read itself.
C6_TimeoutReturnsLinesAndEmpty ==
    /\ \A i \in 1..(Len(reads) - 1) : reads[i] # Timeout
    /\ (SendStarted /\ pc = "send") => \A i \in 1..Len(reads) : reads[i] # Timeout
    /\ SendTimedOut =>
           /\ outcome = Returned
           /\ nreads = Len(reads)
           /\ ret = Append(Stripped(SubSeq(reads, 1, Len(reads) - 1)), <<>>)

\* C6 witness: a send read an error line, then timed out, and returned.
C6_Witness ==
    /\ SendTimedOut
    /\ reads = <<<<Ch("error"), CR, LF>>, Timeout>>
    /\ outcome = Returned

\* C7 (as claimed): system and motion commands are written ending in a
\* newline, and each real-time command is written as its single character.
C7_WireFraming ==
    \A i \in 1..Len(written) :
        LET w == written[i]
        IN  IF w[1].k \in {"$", "G"}
            THEN w[Len(w)] = LF
            ELSE w \in {CycleStartChar, FeedHoldChar, StatusChar, ResetChar}

\* C8 (as claimed): a move with a recognized but unsupported mode performs no
\* wire I/O at all and fails with the not-implemented error; one with an
\* unrecognized mode fails with the not-valid error; neither writes a motion
\* command.
C8_ModeRejectedWithoutIO ==
    (call.op \in MoveOps /\ isOpen) =>
        /\ call.mode \in UnsupportedModes =>
               /\ written = <<>> /\ nreads = 0
               /\ pc = "done" => outcome = not_implemented_error
        /\ call.mode \notin (SupportedModes \cup UnsupportedModes) =>
               (pc = "done" => outcome = not_valid_error)
        /\ call.mode \notin SupportedModes => ~WroteMotion

\* The lines of the response that are bracketed by '<' and '>'.
BracketedReads ==
    {i \in 1..Len(reads) :
        LET r == strip(reads[i])
        IN  r # <<>> /\ r[1].k = "<" /\ r[Len(r)].k = ">"}

SyncMoveOps == {"goto_x_y", "XYGrblMotion.goto_x_y"}

\* C9: when a synchronous goto_x_y returns, the last snapshot it read has
\* state Idle and a work position equal to the target on both axes, and it is
\* the report of the last response read.
C9_ReturnsOnlyAtTarget ==
    (call.op \in SyncMoveOps /\ pc = "done" /\ outcome = Returned) =>
        /\ snap.state = "Idle"
        /\ snap.w_pos[1].num /\ snap.w_pos[1].v = call.x.v
        /\ snap.w_pos[2].num /\ snap.w_pos[2].v = call.y.v
        /\ BracketedReads # {}
        /\ strip(reads[SetMin(BracketedReads)])
               = strip(StatusLine("Idle", <<call.x.v, call.y.v>>))

\* C9 witness: a move to a target with y on its upper bound returned at its
\* second poll, the first one not having ended the loop.
C9_Witness ==
    /\ call.op = "goto_x_y" /\ pc = "done" /\ outcome = Returned
    /\ call.x = Txt(10) /\ call.y = Txt(40)
    /\ polls = 2

\* C10: current_status takes the state and the first two components of each
\* position from the first bracketed line of the response, and yields Unknown
\* with unresolved positions, without error, when no line is bracketed.
C10_StatusParsing ==
    (call.op = "current_status" /\ isOpen /\ pc = "done") =>
        /\ BracketedReads = {} =>
               /\ outcome = Returned
               /\ snap.state = "Unknown"
               /\ snap.m_pos = <<Unknown, Unknown>>
               /\ snap.w_pos = <<Unknown, Unknown>>
        /\ BracketedReads # {} =>
               \A st \in StateNames, x \in {10, 30}, y \in {20, 40} :
                   strip(reads[SetMin(BracketedReads)]) = strip(StatusLine(st, <<x, y>>)) =>
                       /\ outcome = Returned
                       /\ snap.state = st
                       /\ snap.m_pos = <<Txt(x + 100), Txt(y + 100)>>
                       /\ snap.w_pos = <<Txt(x), Txt(y)>>

\* C10 witness: the response held a Run report and then an Idle report, and
\* the snapshot is the Run one.
C10_Witness ==
    /\ call.op = "current_status" /\ pc = "done"
    /\ Len(reads) = 3
    /\ reads[1] = StatusLine("Run", <<10, 20>>)
    /\ reads[2] = StatusLine("Idle", <<30, 20>>)
    /\ snap.state = "Run"

\* The keys of the table are all in the static catalog.
CatalogKeys(t) == \A i \in 1..Len(t) : t[i][1] \in {Key(0), Key(11), Key(110)}

\* C11: for every settings table whose keys are in the catalog, decimal
\* values included, parsing the lines of the rendered text gives back the
\* table's key -> value pairs in their order.
C11_SettingsRoundTrip ==
    (call.op = "get_settings_from_file" /\ CatalogKeys(call.table)) =>
        outcome = Returned /\ ret = call.table

\* C12: on an open port the vertical-acceleration setter writes exactly one
\* command, '$111=<value>', and the horizontal one exactly one command,
\* '$110=<value>'; the call writes nothing else at any time.
C12_AccelerationSetters ==
    isOpen =>
        /\ call.op = "_set_vertical_acceleration" =>
               written = <<<<Ch("$"), Digits(<<1, 1, 1>>), Ch("="),
                             Digits(Dec(call.count)), LF>>>>
        /\ call.op = "_set_horizontal_acceleration" =>
               written = <<<<Ch("$"), Digits(<<1, 1, 0>>), Ch("="),
                             Digits(Dec(call.count)), LF>>>>

\* C12 witness: the vertical setter has returned after its one command.
C12_Witness ==
    /\ call.op = "_set_vertical_acceleration"
    /\ call.count = 4000
    /\ pc = "done"
    /\ outcome = Returned
    /\ Len(written) = 1
    /\ written[1][2] = Digits(<<1, 1, 1>>)
    /\ written[1][4] = Digits(<<4, 0, 0, 0>>)

\* C13: once a synchronous move polls, a status query result that is not
\* (Idle and at target) leads to another poll and never to a failure, so the
\* move can end only by returning.
C13_PollLoopNoErrorExit ==
    (call.op \in SyncMoveOps /\ polls >= 1 /\ pc = "done") => outcome = Returned

\* The first bracketed line of the response being read, stripped.
FirstReport == strip(reads[SetMin(BracketedReads)])

\* The step ends one turn of the poll loop: the call ends or queries again.
PollTurnEnds == pc = "poll" /\ (pc' # "poll" \/ polls' # polls)

\* C14: for a target within the soft limits, a poll that reads Idle with the
\* work position equal to the coordinates the motion command carried (the
\* target formatted to three decimals) makes the move return; the exit test
\* depends on the target and the report alone, so a controller that goes on
\* reporting this position gets the same answer at every later poll.
C14_ReturnsWhenIdleAtCommanded ==
    [][(/\ call.op \in SyncMoveOps
        /\ ~OutOfRange(call.x, call.y)
        /\ PollTurnEnds
        /\ BracketedReads # {}
        /\ FirstReport = strip(StatusLine("Idle", <<Fmt3(call.x.v), Fmt3(call.y.v)>>)))
          => (pc' = "done" /\ outcome' = Returned)]_vars

\* tok is the '%.3f' text of v: a whole number of thousandths, the nearest.
ThreeDecimalsOf(tok, v) ==
    /\ tok.k = "num"
    /\ tok.n[1] % 10 = 0
    /\ tok.n[1] - v \in -4..5

\* C15: a synchronous move writes one status query first, then one motion
\* command 'G0 X<x> Y<y>' with both coordinates at three decimals, then only
\* status queries, at least one of them before it returns.
C15_SyncMoveWireOrder ==
    call.op \in SyncMoveOps =>
        /\ Len(written) >= 1 => written[1] = <<Ch("?"), LF>>
        /\ Len(written) >= 2 =>
               /\ Len(written[2]) = 9
               /\ SubSeq(written[2], 1, 4) = <<Ch("G"), Ch("0"), SP, Ch("X")>>
               /\ ThreeDecimalsOf(written[2][5], call.x.v)
               /\ SubSeq(written[2], 6, 7) = <<SP, Ch("Y")>>
               /\ ThreeDecimalsOf(written[2][8], call.y.v)
               /\ written[2][9] = LF
        /\ \A i \in 3..Len(written) : written[i] = <<Ch("?"), LF>>
        /\ (pc = "done" /\ outcome = Returned) => Len(written) >= 3

\* C15 witness: a move has returned after its precheck, its motion command
\* and two polls.
C15_Witness ==
    /\ call.op = "goto_x_y" /\ pc = "done" /\ outcome = Returned
    /\ Len(written) = 4
    /\ written[2][5] = Num(10) /\ written[2][8] = Num(40)
    /\ written[4] = <<Ch("?"), LF>>

\* C16: a status response whose first bracketed line lacks a state token or
\* a parseable position does not make the status query fail.
C16_MalformedReportIsUnknown ==
    (call.op = "current_status" /\ isOpen /\ pc = "done" /\ BracketedReads # {}) =>
        outcome = Returned

\* The report being read in the poll loop has state Hold.
HoldReported == BracketedReads # {} /\ FirstReport[2] = Ch("Hold")

\* C18: a poll of a synchronous move that reads a Hold report, at the target
\* or not, neither returns nor raises: the move writes one more status query;
\* and the move returns only on a report of Idle at the target.
C18_HoldKeepsPolling ==
    /\ [](call.op \in SyncMoveOps /\ pc = "done" /\ outcome = Returned
            => snap.state = "Idle" /\ snap.w_pos = <<call.x, call.y>>)
    /\ [][(call.op \in SyncMoveOps /\ PollTurnEnds /\ HoldReported)
            => /\ pc' = "poll"
               /\ polls' = polls + 1
               /\ outcome' = NoOutcome
               /\ written' = Append(written, <<Ch("?"), LF>>)]_vars

\* C18 witness: the move to (0.001, 0.002) polls a second time and reads a
\* Hold report at that very position.
C18_Witness ==
    /\ call.op = "goto_x_y" /\ call.x = Txt(10) /\ call.y = Txt(20)
    /\ pc = "poll" /\ polls = 2
    /\ HoldReported
    /\ FirstReport = strip(StatusLine("Hold", <<10, 20>>))

\* The lines of the controller that the client has not read yet.
Unread == link.inbuf \o link.outq

\* C17: at most one command is outstanding: once a command is written, no
\* line of the reply to an earlier command is still to be read, read
\* timeouts included, and the lines a send reads are replies to its own
\* command.
C17_OneCommandOutstanding ==
    /\ \A i \in 1..Len(Unread) : Unread[i].of = link.seq
    /\ \A i \in 1..Len(link.tags) : link.tags[i] = link.seq

HeadMoveOps == {"goto_x_y", "up", "down", "left", "right"}
RelativeOps == {"up", "down", "left", "right"}

\* The count as up or left receives it: down and right negate theirs.
SignedCount == IF call.op \in {"up", "left"} THEN call.count ELSE 0 - call.count

\* t is the target a relative move makes of the reported work position w:
\* count added on the moving axis (x for up and down, y for left and right)
\* and the sum brought to three decimals, the other axis as reported.
TargetFrom(t, w) ==
    IF call.op \in {"up", "down"}
    THEN /\ t[1].num /\ t[1].v % 10 = 0 /\ t[1].v - (w[1] + SignedCount) \in -4..5
         /\ t[2] = Txt(w[2])
    ELSE /\ t[1] = Txt(w[1])
         /\ t[2].num /\ t[2].v % 10 = 0 /\ t[2].v - (w[2] + SignedCount) \in -4..5

\* C19: a movement operation of Head whose absolute target (for a relative
\* move, the reported position plus the signed count, at three decimals) is
\* outside the soft limits on either axis writes no G command, whatever the
\* controller reports.
C19_NoMotionOutsideLimits ==
    /\ [](call.op \in HeadMoveOps /\ WroteMotion
            => call.x.num /\ call.y.num /\ ~OutOfRange(call.x, call.y))
    /\ [][(call.op \in RelativeOps /\ pc = "where" /\ call'.x.num)
            => /\ BracketedReads # {}
               /\ \E st \in StateNames, w \in {10, 30} \X {20, 40} :
                      /\ FirstReport = strip(StatusLine(st, w))
                      /\ TargetFrom(<<call'.x, call'.y>>, w)]_vars

\* C19 witness: up by 0.002 from x = 0.003 would end above the x limit: the
\* call has ended with the soft-limit error after the setter's command and
\* the status query, and no G command.
C19_Witness ==
    /\ call.op = "up" /\ call.count = 20
    /\ call.x = Txt(50) /\ call.y = Txt(20)
    /\ pc = "done" /\ outcome = soft_limit_error
    /\ Len(written) = 2
    /\ ~WroteMotion

\* The command of the entry <<key, value>>: '$', the key's number, '=', the
\* value, and the newline _command adds.
EntryCommand(en) == <<Ch("$"), en[1][2], Ch("=")>> \o en[2] \o <<LF>>

\* C20: pushing a settings table writes one command '$<n>=<value>' per
\* entry, in the table's order; the call returns only when every entry's
\* command has been written, and when a write fails the error leaves the
\* call with the commands of the earlier entries written and none for the
\* failed entry or a later one.
C20_SettingsPushedInOrder ==
    call.op = "save_settings_to_grbl" =>
        /\ Len(written) <= Len(call.table)
        /\ \A i \in 1..Len(written) : written[i] = EntryCommand(call.table[i])
        /\ (pc = "done" /\ outcome = Returned) => Len(written) = Len(call.table)
        /\ (pc = "done" /\ Len(written) < Len(call.table)) => outcome.kind = "raised"
        /\ outcome.kind = "raised" =>
               /\ pc = "done"
               /\ Len(written) < Len(call.table)
               /\ outcome \in {write_error, port_not_open_error}

\* C20 witness: the write of the second entry of a two-entry table failed
\* after the first entry's command was written and answered.
C20_Witness ==
    /\ call.op = "save_settings_to_grbl"
    /\ Len(call.table) = 2
    /\ pc = "done" /\ outcome = write_error
    /\ written = <<EntryCommand(call.table[1])>>
    /\ nreads >= 1

\* The lines read that have the numbered form '$<digits>=<value>'.
NumberedReads ==
    {i \in 1..Len(reads) :
        /\ Len(reads[i]) >= 4
        /\ reads[i][1] = Ch("$")
        /\ reads[i][2].k = "digits"
        /\ reads[i][3] = Ch("=")}

\* C21: parsing the lines of a settings listing never fails: lines that do
\* not begin with '$', and lines that begin with '$' without the numbered
\* form, are passed over, and the table returned has one entry for each key
\* of a numbered line.
C21_SettingsParsingNeverFails ==
    (call.op = "get_settings_from_grbl" /\ isOpen /\ pc = "done") =>
        /\ outcome = Returned
        /\ \A i \in NumberedReads :
               \E j \in 1..Len(ret) : ret[j][1] = SubSeq(reads[i], 1, 2)
        /\ \A j, k \in 1..Len(ret) : ret[j][1] = ret[k][1] => j = k

\* The setter command a relative move starts with, as written: '$111=4000'
\* for up and down, '$110=8000' for left and right.
SetterWritten ==
    IF call.op \in {"up", "down"}
    THEN <<Ch("$"), Digits(<<1, 1, 1>>), Ch("="), Digits(<<4, 0, 0, 0>>), LF>>
    ELSE <<Ch("$"), Digits(<<1, 1, 0>>), Ch("="), Digits(<<8, 0, 0, 0>>), LF>>

\* C22: a relative move writes its acceleration setter, then one status
\* query; then, only if the target made of the reported position and the
\* signed count passes the soft-limit guard, the precheck query, one G0
\* command for that target and the poll queries; when the guard rejects the
\* target the setter and the first query are all that was written.
C22_RelativeMoveWireOrder ==
    /\ [](call.op \in RelativeOps =>
            /\ Len(written) >= 1 => written[1] = SetterWritten
            /\ Len(written) >= 2 => written[2] = <<Ch("?"), LF>>
            /\ Len(written) >= 3 =>
                   /\ written[3] = <<Ch("?"), LF>>
                   /\ call.x.num /\ call.y.num /\ ~OutOfRange(call.x, call.y)
            /\ Len(written) >= 4 =>
                   /\ Len(written[4]) = 9
                   /\ SubSeq(written[4], 1, 4) = <<Ch("G"), Ch("0"), SP, Ch("X")>>
                   /\ ThreeDecimalsOf(written[4][5], call.x.v)
                   /\ SubSeq(written[4], 6, 7) = <<SP, Ch("Y")>>
                   /\ ThreeDecimalsOf(written[4][8], call.y.v)
                   /\ written[4][9] = LF
            /\ \A i \in 5..Len(written) : written[i] = <<Ch("?"), LF>>
            /\ outcome = soft_limit_error => Len(written) = 2
            /\ (pc = "done" /\ outcome = Returned) => Len(written) >= 5)
    /\ [][(call.op \in RelativeOps /\ pc = "where" /\ call'.x.num)
            => /\ BracketedReads # {}
               /\ \E st \in StateNames, w \in {10, 30} \X {20, 40} :
                      /\ FirstReport = strip(StatusLine(st, w))
                      /\ TargetFrom(<<call'.x, call'.y>>, w)
               /\ IF OutOfRange(call'.x, call'.y)
                  THEN written' = written /\ outcome' = soft_limit_error
                  ELSE written' = Append(written, <<Ch("?"), LF>>)]_vars

\* C22 witness: up by 0.002 from (0.001, 0.002) has returned after the
\* setter, the status query, the precheck, the G0 command to (0.003, 0.002)
\* and one poll.
C22_Witness ==
    /\ call.op = "up" /\ call.count = 20
    /\ pc = "done" /\ outcome = Returned
    /\ Len(written) = 5
    /\ written[1][2] = Digits(<<1, 1, 1>>)
    /\ written[4][5] = Num(30) /\ written[4][8] = Num(20)

PickerOps == {"insert", "retrieve", "home"}

\* The line begins with the three characters e, n, d.
BeginsWithEnd(r) ==
    Len(r) >= 3 /\ r[1] = Ch("e") /\ r[2] = Ch("n") /\ r[3] = Ch("d")

\* C23: a picker operation on an open port writes exactly one character
\* ('i' for insert, 'r' for retrieve, 'h' for home) and then only reads; it
\* has returned exactly when the last line read begins with 'end', and no
\* empty read or other line before that ended it.
C23_PickerReadsUntilSentinel ==
    (call.op \in PickerOps /\ outcome.kind # "raised") =>
        /\ written = <<<<Ch(IF call.op = "insert" THEN "i"
                            ELSE IF call.op = "retrieve" THEN "r" ELSE "h")>>>>
        /\ (pc = "done" /\ outcome = Returned)
               <=> (reads # <<>> /\ BeginsWithEnd(reads[Len(reads)]))
        /\ \A i \in 1..(Len(reads) - 1) : ~BeginsWithEnd(reads[i])
        /\ nreads = Len(reads)

\* C23 witness: home has returned at its third read, after an empty read
\* and a line with the sentinel behind a blank.
C23_Witness ==
    /\ call.op = "home" /\ pc = "done" /\ outcome = Returned
    /\ written = <<<<Ch("h")>>>>
    /\ Len(reads) = 3
    /\ reads[1] = Timeout
    /\ reads[2] = <<SP, Ch("e"), Ch("n"), Ch("d"), LF>>
    /\ BeginsWithEnd(reads[3])

====
